---- MODULE Spec2Model ----
(***************************************************************************)
(* ESP8266 promiscuous-mode sniffer sketches: the main loop() (channel     *)
(* scan scheduler, LED blink, operator commands, report trigger) and the   *)
(* promiscuous_callback (per-channel counters), modelled at the level of   *)
(* the source statements.                                                  *)
(*                                                                         *)
(* Five sketches are covered; the variable `sketch` fixes which one runs: *)
(*   "Blink"      001-BlinkSniffer           (one counter, LED blink only) *)
(*   "Simple"     002-SimpleSniffer          (scalar counters, no scan)    *)
(*   "Scan"       003-ScanSniffer  l.1-238   (length buckets per channel)  *)
(*   "ScanDecode" 003-ScanSniffer  l.355-755 (decodes len 60 and 128)      *)
(*   "Datagram"   004-SimpleDatagramSniffer  (decodes every len >= 24)     *)
(*                                                                         *)
(* Execution model.  loop() runs statement by statement.  The radio calls  *)
(* promiscuous_callback between any two statements of loop(); a callback   *)
(* invocation runs to completion before loop() resumes (single core, the   *)
(* callback is delivered like an interrupt), and its own statements are    *)
(* separate steps, so the states inside one invocation are states of the   *)
(* model.  None of the shared variables is volatile or locked.  The        *)
(* specification SpecNested adds the case in which the radio delivers a    *)
(* second frame while an invocation is inside its first increment.         *)
(***************************************************************************)
EXTENDS Integers, Sequences, FiniteSets, TLC

VARIABLES
    sketch,                  \* which sketch is running (never changes)
    env,                     \* the bounded environment of this run (never changes)
    now,                     \* millis()
    framesSeen,              \* callback invocations started so far
    bytesSent,               \* operator bytes written to the serial line so far
    serialIn,                \* bytes waiting in the serial receive buffer
    gCurrentChannel,         \* unsigned int gCurrentChannel
    cnt,                     \* the counter arrays, cnt[array][slot]
    stray,                   \* writes that landed outside every counter array
    radioChannel,            \* channel last passed to wifi_set_channel
    radioCalls,              \* number of wifi_set_channel calls so far, counted
                             \* around 1 .. 2 * kChannelMax
    radioAge,                \* milliseconds since the last wifi_set_channel
                             \* call, as far as kLongMax
    pc,                      \* position of loop()
    staticInit,              \* loop()'s function statics are initialised
    prevSwitchTime,          \* static unsigned long prevSwitchTime
    currentTime,             \* unsigned long currentTime (local of loop)
    timeDelta,               \* unsigned long timeDelta (local of loop)
    iter,                    \* channel, prevSwitchTime and number of radio calls
                             \* when this iteration's scheduler step began
    prevBlinkCallbackCount,  \* static unsigned long prevBlinkCallbackCount
    prevPrintCallbackCount,  \* static unsigned long prevPrintCallbackCount
    serial_input,            \* char serial_input, "none" when nothing was read
    bReportRequestd,         \* bool bReportRequestd
    bFullReportRequestd,     \* bool bFullReportRequestd
    packetsDetectedSinceLastPrint, \* long packetsDetectedSinceLastPrint
    idx,                     \* channel_index of print_report / i of the full loop
    blinks,                  \* LED blinks so far
    out,                     \* what this loop() iteration has emitted so far
    reportLines,             \* values printed by the per-channel lines of the
                             \* summary report being (or last) printed
    reportTotal,             \* value printed by its TOTAL line, -1 before it
    cbpc,                    \* position of promiscuous_callback, "idle" outside
    frame,                   \* (buf, len) of the invocation in progress
    entry,                   \* counters and channel when the invocation began
    ie,                      \* first information element of the buffer in hand
    heap,                    \* blocks the callback has allocated and not freed
    cbOut,                   \* what the invocation in progress has printed
    readEnd,                 \* 1 + the highest offset of buf it has read
    ssid,                    \* the bytes it has copied out as SSID
    loaded                   \* the buffer of an invocation that another one
                             \* has preempted inside gCallbackCount[0]++, and
                             \* the value it had read

vars == << sketch, env, now, framesSeen, bytesSent, serialIn, gCurrentChannel,
           cnt, stray, radioChannel, radioCalls, radioAge, pc, staticInit,
           prevSwitchTime,
           currentTime, timeDelta, iter, prevBlinkCallbackCount, prevPrintCallbackCount,
           serial_input, bReportRequestd, bFullReportRequestd,
           packetsDetectedSinceLastPrint, idx, blinks, out, reportLines,
           reportTotal, cbpc, frame, entry, ie, heap, cbOut, readEnd, ssid,
           loaded >>

envVars  == << sketch, env >>
loopVars == << pc, staticInit, prevSwitchTime, currentTime, timeDelta, iter,
               prevBlinkCallbackCount, prevPrintCallbackCount, serial_input,
               bReportRequestd, bFullReportRequestd,
               packetsDetectedSinceLastPrint, idx, blinks, out, reportLines,
               reportTotal >>
ssidVars == << ie, heap, readEnd, ssid >>
cbVars   == << cbpc, frame, entry, framesSeen, cbOut, ssidVars, loaded >>
radioVars == << radioChannel, radioCalls, radioAge >>

(***************************************************************************)
(* Program constants                                                       *)
(***************************************************************************)
kScanTimeMillis == 60000
kChannelMax == 14
kSlotCount == 15
kBlinkThreshold == 5
kReportThreshold == 100
kReportThresholdDecode == 500
kMacHeaderSize == 24
kSimpleChannel == 11
kRadioHeaderSize == 12
kBeaconHeaderSize == 24
kBeaconFixedSize == 12

kType_Management == 0
kType_Control == 1
kType_Data == 2
kType_Reserved == 3

kSubtype_Mgmt_AssocReq == 0
kSubtype_Mgmt_ProbeReq == 4
kSubtype_Mgmt_Beacon == 8
kSubtype_Mgmt_Disassoc == 10

\* The sketches that sort the buffers into counters and print reports; the
\* fifth, "Blink", counts the buffers and blinks the LED, nothing else.
Sketches == {"Simple", "Scan", "ScanDecode", "Datagram"}

\* The sketches that scan the channels and keep one counter slot per channel.
HasScan(s) == s \in {"Scan", "ScanDecode", "Datagram"}

Slots == 0 .. (kSlotCount - 1)
Channels == 1 .. kChannelMax

\* The counter arrays in the order of their declarations.
ArrayOrder ==
    << "gCallbackCount",
       "gDatagramCount_012", "gDatagramCount_060", "gDatagramCount_128",
       "gDatagramCount_Other",
       "gDatagramTypeMgmtCount", "gDatagramTypeCntlCount",
       "gDatagramTypeDataCount", "gDatagramTypeRsrvCount",
       "gDatagramAssocCount", "gDatagramProbeCount", "gDatagramBeaconCount",
       "gDatagramDisassocCount" >>

Arrays == { ArrayOrder[i] : i \in 1 .. Len(ArrayOrder) }

LengthArrays == { "gDatagramCount_012", "gDatagramCount_060",
                  "gDatagramCount_128", "gDatagramCount_Other" }
TypeArrays == { "gDatagramTypeMgmtCount", "gDatagramTypeCntlCount",
                "gDatagramTypeDataCount", "gDatagramTypeRsrvCount" }
SubtypeArrays == { "gDatagramAssocCount", "gDatagramProbeCount",
                   "gDatagramBeaconCount", "gDatagramDisassocCount" }

\* The arrays a sketch declares.
DeclaredArrays(s) ==
    IF s \in {"Simple", "Scan"} THEN {"gCallbackCount"} \cup LengthArrays
    ELSE Arrays

ZeroCounters == [a \in Arrays |-> [s \in Slots |-> 0]]

(***************************************************************************)
(* Frame-control bit fields (struct ESPDatagramFrameControl, allocated     *)
(* from the least significant bit of the first frame-control byte).        *)
(***************************************************************************)
FcProtocol(b) == b % 4
FcType(b) == (b \div 4) % 4
FcSubtype(b) == (b \div 16) % 16

NoFrame == [len |-> 0, fc |-> 0]

\* An information element as the decoding sketch reads it through
\* ESPDatagramBeaconSSID: element_id, length, and the ssid bytes that follow
\* in the buffer (zero bytes after them, up to the end of the buffer).
NoElement == [id |-> 0, len |-> 0, bytes |-> << >>]


(***************************************************************************)
(* Unsigned long arithmetic.  unsigned long and long have 32 bits on the   *)
(* ESP8266.  An unsigned long is kept as the 32-bit two's complement       *)
(* integer with the same bits: a value below 2^31 is itself, a value v     *)
(* from 2^31 on is v - 2^32 (so 2^32 - 1 is -1).  The conversion of an     *)
(* unsigned long to long, as in                                            *)
(*     long packetsDetectedSinceLastPrint = gCallbackCount[0] - prev...;   *)
(* keeps the bits and is the identity on this representation.              *)
(***************************************************************************)
kLongMax == 2147483647
kLongMin == -kLongMax - 1

\* 2^32 - 1, the largest unsigned long.
kULongMax == -1

\* a <= b as unsigned long.
ULongLeq(a, b) == IF (a < 0) = (b < 0) THEN a <= b ELSE b < 0

\* a - b where the difference is not taken modulo 2^32: nothing when a is
\* below b.
ULongSub_NoWrap(a, b) == IF ULongLeq(b, a) THEN a - b ELSE 0

\* a - b modulo 2^32.  No intermediate result leaves the 32 bits.
ULongSub(a, b) ==
    IF (a < 0) = (b < 0) THEN a - b
    ELSE IF b < 0
         THEN IF a <= kLongMax + b THEN a - b
              ELSE ((a - kLongMax) - (b + kLongMax)) - 2
         ELSE IF a >= (b - kLongMax) - 1 THEN a - b
              ELSE ((a + kLongMax) - (b - kLongMax)) + 2

\* a + b modulo 2^32.  No intermediate result leaves the 32 bits.
ULongAdd(a, b) ==
    IF (a < 0) # (b < 0) THEN a + b
    ELSE IF a >= 0
         THEN IF a <= kLongMax - b THEN a + b
              ELSE ((a - kLongMax) + (b - kLongMax)) - 2
         ELSE IF a >= kLongMin - b THEN a + b
              ELSE ((a + kLongMax) + (b + kLongMax)) + 2

\* x++ modulo 2^32: 2^31 - 1 is followed by 2^31, and 2^32 - 1 (kept as -1)
\* by 0.
ULongInc(x) == IF x = kLongMax THEN kLongMin ELSE x + 1

(***************************************************************************)
(* The scan scheduler's pieces (loop(), "Channel Scanning Logic").         *)
(***************************************************************************)
ScanDue_Late(delta) == delta > kScanTimeMillis
ScanDue_Always(delta) == TRUE
\* if (timeDelta >= kScanTimeMillis), both unsigned long.
ScanDue(delta) == ULongLeq(kScanTimeMillis, delta)

IncChannel_Stuck(c) == c
IncChannel(c) == c + 1

WrapChannel_Off(c) == IF c >= kChannelMax THEN 1 ELSE c
WrapChannel(c) == IF c > kChannelMax THEN 1 ELSE c

(***************************************************************************)
(* The report trigger's pieces (loop(), "Report Print Logic").             *)
(***************************************************************************)
ReportThreshold_Same(s) == kReportThreshold
ReportThreshold(s) ==
    IF s = "ScanDecode" THEN kReportThresholdDecode ELSE kReportThreshold

ReportDue_NoRequest(s, since, requested) == since >= ReportThreshold(s)
ReportDue(s, since, requested) == since >= ReportThreshold(s) \/ requested

\* Serial.read() followed by the tests on serial_input.
IsReportRequest_AnyByte(s, c) == c \notin {"F", "f"}
IsReportRequest(s, c) == c = "\n"
IsFullRequest_UpperOnly(s, c) == HasScan(s) /\ c = "F"
IsFullRequest(s, c) == HasScan(s) /\ (c = "F" \/ c = "f")

BlinkDue_Four(since) == since >= kBlinkThreshold - 1
BlinkDue(since) == since >= kBlinkThreshold

\* Number of per-counter lines print_report prints before its total line.
ReportLineCount(s) == IF HasScan(s) THEN kChannelMax ELSE 4

\* The value print_report prints on line i.
ReportLineValue(s, c, i) ==
    IF HasScan(s) THEN c["gCallbackCount"][i]
    ELSE c[ArrayOrder[i + 1]][0]

\* Slots print_channel_report is called for by the full-report loop.
FullReportSlots_From1 == 1 .. (kSlotCount - 1)
FullReportSlots == 0 .. (kSlotCount - 1)

NoOutput == [summary |-> 0, full |-> {}, setch |-> 0, blink |-> 0]

LoopEntry(s) == IF HasScan(s) THEN "start" ELSE "blink"

\* Where loop() goes after the LED blink logic: in "Blink" it is all of
\* loop().
AfterBlink(s) == IF s = "Blink" THEN "end" ELSE "serial"

\* Where loop() goes after the summary-report block.
AfterReport(s, full) == IF HasScan(s) /\ full THEN "fullrep" ELSE "end"


(***************************************************************************)
(* loop().  Every loop action needs the callback to be outside an          *)
(* invocation: an invocation in progress has preempted loop().             *)
(***************************************************************************)
Total == cnt["gCallbackCount"][0]

\* loop() executes its next statement only while no callback invocation is
\* in progress.
LoopRuns_Anytime == TRUE
LoopRuns == cbpc = "idle" /\ ~loaded.on

\* millis(); timeDelta; the test of the dwell.  The first call of loop()
\* initialises the static prevSwitchTime from millis().
LoopScanCheck ==
    /\ LoopRuns /\ pc = "start"
    /\ LET prev == IF staticInit THEN prevSwitchTime ELSE now
       IN  /\ staticInit' = TRUE
           /\ prevSwitchTime' = prev
           /\ currentTime' = now
           /\ timeDelta' = ULongSub(now, prev)
           /\ iter' = [ch |-> gCurrentChannel, prev |-> prev,
                       calls |-> radioCalls]
           /\ pc' = IF ScanDue(ULongSub(now, prev)) THEN "inc" ELSE "blink"
    /\ UNCHANGED << envVars, now, bytesSent, serialIn, gCurrentChannel, cnt,
                    stray, radioVars, cbVars, prevBlinkCallbackCount,
                    prevPrintCallbackCount, serial_input, bReportRequestd,
                    bFullReportRequestd, packetsDetectedSinceLastPrint, idx,
                    blinks, out, reportLines, reportTotal >>

\* gCurrentChannel++;
LoopIncChannel ==
    /\ LoopRuns /\ pc = "inc"
    /\ gCurrentChannel' = IncChannel(gCurrentChannel)
    /\ pc' = "wrap"
    /\ UNCHANGED << envVars, now, bytesSent, serialIn, cnt, stray, radioVars,
                    cbVars, staticInit, prevSwitchTime, currentTime, timeDelta, iter,
                    prevBlinkCallbackCount, prevPrintCallbackCount,
                    serial_input, bReportRequestd, bFullReportRequestd,
                    packetsDetectedSinceLastPrint, idx, blinks, out,
                    reportLines, reportTotal >>

\* if (gCurrentChannel > 14) { gCurrentChannel = 1; }
LoopWrapChannel ==
    /\ LoopRuns /\ pc = "wrap"
    /\ gCurrentChannel' = WrapChannel(gCurrentChannel)
    /\ pc' = "setch"
    /\ UNCHANGED << envVars, now, bytesSent, serialIn, cnt, stray, radioVars,
                    cbVars, staticInit, prevSwitchTime, currentTime, timeDelta, iter,
                    prevBlinkCallbackCount, prevPrintCallbackCount,
                    serial_input, bReportRequestd, bFullReportRequestd,
                    packetsDetectedSinceLastPrint, idx, blinks, out,
                    reportLines, reportTotal >>

\* A scheduler that starts the next dwell where the last one should have
\* ended, and so catches up on the dwells it missed.
LoopSetChannel_CatchUp ==
    /\ LoopRuns /\ pc = "setch"
    /\ radioChannel' = gCurrentChannel
    /\ radioCalls' = IF radioCalls = 2 * kChannelMax THEN 1 ELSE radioCalls + 1
    /\ radioAge' = 0
    /\ prevSwitchTime' = ULongAdd(prevSwitchTime, kScanTimeMillis)
    /\ out' = [out EXCEPT !.setch = @ + 1]
    /\ pc' = "blink"
    /\ UNCHANGED << envVars, now, bytesSent, serialIn, gCurrentChannel, cnt,
                    stray, cbVars, staticInit, currentTime, timeDelta, iter,
                    prevBlinkCallbackCount, prevPrintCallbackCount,
                    serial_input, bReportRequestd, bFullReportRequestd,
                    packetsDetectedSinceLastPrint, idx, blinks, reportLines,
                    reportTotal >>

\* wifi_set_channel(gCurrentChannel); prevSwitchTime = currentTime;
\* print_channel_switch(gCurrentChannel);
LoopSetChannel ==
    /\ LoopRuns /\ pc = "setch"
    /\ radioChannel' = gCurrentChannel
    /\ radioCalls' = IF radioCalls = 2 * kChannelMax THEN 1 ELSE radioCalls + 1
    /\ radioAge' = 0
    /\ prevSwitchTime' = currentTime
    /\ out' = [out EXCEPT !.setch = @ + 1]
    /\ pc' = "blink"
    /\ UNCHANGED << envVars, now, bytesSent, serialIn, gCurrentChannel, cnt,
                    stray, cbVars, staticInit, currentTime, timeDelta, iter,
                    prevBlinkCallbackCount, prevPrintCallbackCount,
                    serial_input, bReportRequestd, bFullReportRequestd,
                    packetsDetectedSinceLastPrint, idx, blinks, reportLines,
                    reportTotal >>

\* packetsDetectedSinceLastBlink; the test; LED on, delay(10), LED off.
LoopBlinkCheck ==
    /\ LoopRuns /\ pc = "blink"
    /\ LET since == ULongSub(Total, prevBlinkCallbackCount)
       IN  IF BlinkDue(since)
           THEN /\ blinks' = blinks + 1
                /\ out' = [out EXCEPT !.blink = @ + 1]
                /\ pc' = "blinkset"
           ELSE /\ UNCHANGED << blinks, out >>
                /\ pc' = AfterBlink(sketch)
    /\ UNCHANGED << envVars, now, bytesSent, serialIn, gCurrentChannel, cnt,
                    stray, radioVars, cbVars, staticInit, prevSwitchTime,
                    currentTime, timeDelta, iter, prevBlinkCallbackCount,
                    prevPrintCallbackCount, serial_input, bReportRequestd,
                    bFullReportRequestd, packetsDetectedSinceLastPrint, idx,
                    reportLines, reportTotal >>

\* prevBlinkCallbackCount = gCallbackCount[0];
LoopBlinkDone ==
    /\ LoopRuns /\ pc = "blinkset"
    /\ prevBlinkCallbackCount' = Total
    /\ pc' = AfterBlink(sketch)
    /\ UNCHANGED << envVars, now, bytesSent, serialIn, gCurrentChannel, cnt,
                    stray, radioVars, cbVars, staticInit, prevSwitchTime,
                    currentTime, timeDelta, iter, prevPrintCallbackCount, serial_input,
                    bReportRequestd, bFullReportRequestd,
                    packetsDetectedSinceLastPrint, idx, blinks, out,
                    reportLines, reportTotal >>

\* if (Serial.available() > 0) { serial_input = Serial.read(); ... }
LoopSerial ==
    /\ LoopRuns /\ pc = "serial"
    /\ IF Len(serialIn) > 0
       THEN /\ serial_input' = Head(serialIn)
            /\ serialIn' = Tail(serialIn)
            /\ bReportRequestd' = IsReportRequest(sketch, Head(serialIn))
            /\ bFullReportRequestd' = IsFullRequest(sketch, Head(serialIn))
       ELSE UNCHANGED << serial_input, serialIn, bReportRequestd,
                         bFullReportRequestd >>
    /\ pc' = "printchk"
    /\ UNCHANGED << envVars, now, bytesSent, gCurrentChannel, cnt, stray,
                    radioVars, cbVars, staticInit, prevSwitchTime, currentTime, timeDelta, iter,
                    prevBlinkCallbackCount, prevPrintCallbackCount,
                    packetsDetectedSinceLastPrint, idx, blinks, out,
                    reportLines, reportTotal >>

\* packetsDetectedSinceLastPrint; the test that starts print_report().
LoopReportCheck ==
    /\ LoopRuns /\ pc = "printchk"
    /\ LET since == ULongSub(Total, prevPrintCallbackCount)
       IN  /\ packetsDetectedSinceLastPrint' = since
           /\ IF ReportDue(sketch, since, bReportRequestd)
              THEN /\ pc' = "report"
                   /\ idx' = 1
                   /\ reportLines' = << >>
                   /\ reportTotal' = -1
              ELSE /\ pc' = AfterReport(sketch, bFullReportRequestd)
                   /\ idx' = 0
                   /\ UNCHANGED << reportLines, reportTotal >>
    /\ UNCHANGED << envVars, now, bytesSent, serialIn, gCurrentChannel, cnt,
                    stray, radioVars, cbVars, staticInit, prevSwitchTime,
                    currentTime, timeDelta, iter, prevBlinkCallbackCount,
                    prevPrintCallbackCount, serial_input, bReportRequestd,
                    bFullReportRequestd, blinks, out >>

\* print_report(): one per-channel line (one bucket line in "Simple").
LoopPrintReportLine ==
    /\ LoopRuns /\ pc = "report"
    /\ idx <= ReportLineCount(sketch)
    /\ reportLines' = Append(reportLines, ReportLineValue(sketch, cnt, idx))
    /\ idx' = idx + 1
    /\ UNCHANGED << envVars, now, bytesSent, serialIn, gCurrentChannel, cnt,
                    stray, radioVars, cbVars, pc, staticInit, prevSwitchTime,
                    currentTime, timeDelta, iter, prevBlinkCallbackCount,
                    prevPrintCallbackCount, serial_input, bReportRequestd,
                    bFullReportRequestd, packetsDetectedSinceLastPrint,
                    blinks, out, reportTotal >>

\* print_report(): the total line, and the return.
LoopPrintReportTotal ==
    /\ LoopRuns /\ pc = "report"
    /\ idx > ReportLineCount(sketch)
    /\ reportTotal' = Total
    /\ out' = [out EXCEPT !.summary = @ + 1]
    /\ pc' = "setprint"
    /\ UNCHANGED << envVars, now, bytesSent, serialIn, gCurrentChannel, cnt,
                    stray, radioVars, cbVars, staticInit, prevSwitchTime,
                    currentTime, timeDelta, iter, prevBlinkCallbackCount,
                    prevPrintCallbackCount, serial_input, bReportRequestd,
                    bFullReportRequestd, packetsDetectedSinceLastPrint, idx,
                    blinks, reportLines >>

\* A report that starts the count afresh.
LoopSetPrevPrint_Resets ==
    /\ LoopRuns /\ pc = "setprint"
    /\ cnt' = ZeroCounters
    /\ prevPrintCallbackCount' = 0
    /\ pc' = AfterReport(sketch, bFullReportRequestd)
    /\ idx' = 0
    /\ UNCHANGED << envVars, now, bytesSent, serialIn, gCurrentChannel,
                    stray, radioVars, cbVars, staticInit, prevSwitchTime,
                    currentTime, timeDelta, iter, prevBlinkCallbackCount, serial_input,
                    bReportRequestd, bFullReportRequestd,
                    packetsDetectedSinceLastPrint, blinks, out, reportLines,
                    reportTotal >>

\* prevPrintCallbackCount = gCallbackCount[0];
LoopSetPrevPrint ==
    /\ LoopRuns /\ pc = "setprint"
    /\ prevPrintCallbackCount' = Total
    /\ pc' = AfterReport(sketch, bFullReportRequestd)
    /\ idx' = 0
    /\ UNCHANGED << envVars, now, bytesSent, serialIn, gCurrentChannel, cnt,
                    stray, radioVars, cbVars, staticInit, prevSwitchTime,
                    currentTime, timeDelta, iter, prevBlinkCallbackCount, serial_input,
                    bReportRequestd, bFullReportRequestd,
                    packetsDetectedSinceLastPrint, blinks, out, reportLines,
                    reportTotal >>

\* for (i = 0; i < 15; i++) { print_channel_report(i); }: one iteration, or
\* the exit of the loop.
LoopPrintChannelReport ==
    /\ LoopRuns /\ pc = "fullrep"
    /\ IF idx \in FullReportSlots
       THEN /\ out' = [out EXCEPT !.full = @ \cup {idx}]
            /\ idx' = idx + 1
            /\ pc' = pc
       ELSE /\ pc' = "end"
            /\ UNCHANGED << out, idx >>
    /\ UNCHANGED << envVars, now, bytesSent, serialIn, gCurrentChannel, cnt,
                    stray, radioVars, cbVars, staticInit, prevSwitchTime,
                    currentTime, timeDelta, iter, prevBlinkCallbackCount,
                    prevPrintCallbackCount, serial_input, bReportRequestd,
                    bFullReportRequestd, packetsDetectedSinceLastPrint,
                    blinks, reportLines, reportTotal >>

\* loop() returns; its non-static locals die, and it is called again.
LoopReturn ==
    /\ LoopRuns /\ pc = "end"
    /\ pc' = LoopEntry(sketch)
    /\ serial_input' = "none"
    /\ bReportRequestd' = FALSE
    /\ bFullReportRequestd' = FALSE
    /\ packetsDetectedSinceLastPrint' = 0
    /\ idx' = 0
    /\ currentTime' = 0
    /\ timeDelta' = 0
    /\ out' = NoOutput
    /\ UNCHANGED << envVars, now, bytesSent, serialIn, gCurrentChannel, cnt,
                    stray, radioVars, cbVars, staticInit, prevSwitchTime, iter,
                    prevBlinkCallbackCount, prevPrintCallbackCount, blinks,
                    reportLines, reportTotal >>


(***************************************************************************)
(* promiscuous_callback(buf, len).  `frame.len` is len; `frame.fc` is the  *)
(* byte the sketch reads as the first frame-control byte (buf[0] in        *)
(* "Datagram", the first byte after the 12-byte radio header in            *)
(* "ScanDecode").                                                          *)
(***************************************************************************)
\* switch (len)
LengthArray_ByCount(len) ==
    IF cnt["gCallbackCount"][0] > 1 THEN "gDatagramCount_Other"
    ELSE CASE len = 12  -> "gDatagramCount_012"
           [] len = 60  -> "gDatagramCount_060"
           [] len = 128 -> "gDatagramCount_128"
           [] OTHER     -> "gDatagramCount_Other"
LengthArray_60As128(len) ==
    CASE len = 12  -> "gDatagramCount_012"
      [] len = 60  -> "gDatagramCount_128"
      [] len = 128 -> "gDatagramCount_128"
      [] OTHER     -> "gDatagramCount_Other"
LengthArray(len) ==
    CASE len = 12  -> "gDatagramCount_012"
      [] len = 60  -> "gDatagramCount_060"
      [] len = 128 -> "gDatagramCount_128"
      [] OTHER     -> "gDatagramCount_Other"

\* Whether the callback goes on to read a frame-control field from buf.
Decoded_Always(s, len) == s \in {"Datagram", "ScanDecode"}
Decoded_KnownLengths(s, len) ==
    s \in {"Datagram", "ScanDecode"} /\ (len = 128 \/ len = 60)
Decoded(s, len) ==
    \/ s = "Datagram" /\ ~(len < kMacHeaderSize)
    \/ s = "ScanDecode" /\ (len = 128 \/ len = 60)

\* if (frame_control->type == kType_Management) ... else if ...
TypeArray(t) ==
    CASE t = kType_Management -> "gDatagramTypeMgmtCount"
      [] t = kType_Control    -> "gDatagramTypeCntlCount"
      [] t = kType_Data       -> "gDatagramTypeDataCount"
      [] t = kType_Reserved   -> "gDatagramTypeRsrvCount"

\* if (frame_control->subtype == kSubtype_Mgmt_AssocReq) ... else ...
\* "none": the final else, which counts nothing.
SubtypeArray(st) ==
    CASE st = kSubtype_Mgmt_AssocReq -> "gDatagramAssocCount"
      [] st = kSubtype_Mgmt_ProbeReq -> "gDatagramProbeCount"
      [] st = kSubtype_Mgmt_Beacon   -> "gDatagramBeaconCount"
      [] st = kSubtype_Mgmt_Disassoc -> "gDatagramDisassocCount"
      [] OTHER                       -> "none"

\* Whether the callback increments a management-subtype counter.
CountsSubtype(s, fc) ==
    /\ s = "Datagram"
    /\ FcType(fc) = kType_Management
    /\ SubtypeArray(FcSubtype(fc)) # "none"

\* Serial.print of the branch of the type dispatch.
TypeTag(t) ==
    CASE t = kType_Management -> "MGMT"
      [] t = kType_Control    -> "CNTL"
      [] t = kType_Data       -> "DATA"
      [] t = kType_Reserved   -> "RSRV"

\* if (frame_control->protocol != 0b00)
BadProtocol_Never(fc) == FALSE
BadProtocol(fc) == FcProtocol(fc) # 0

\* Blocks allocated with new before the type dispatch.
HeaderBlocks(s) == IF s = "Datagram" THEN 2 ELSE 0

\* Bytes of buf read to get at the frame-control field: the datagram sketch
\* copies a MAC header from the start of buf, the decoding sketch reads the
\* two frame-control bytes behind the radio header.
HeaderReadEnd(s) ==
    IF s = "Datagram" THEN kMacHeaderSize ELSE kRadioHeaderSize + 2

\* if (frame_control->subtype == kSubtype_Mgmt_Beacon), inside
\* if (len == 128), inside the Management branch of the decoding sketch.
ExtractsSsid(s, f) ==
    /\ s = "ScanDecode"
    /\ f.len = 128
    /\ FcType(f.fc) = kType_Management
    /\ FcSubtype(f.fc) = kSubtype_Mgmt_Beacon

\* Offset in buf of the element the decoding sketch takes for the SSID:
\* behind the radio header, the beacon's MAC header and its fixed fields.
SsidOffset == kRadioHeaderSize + kBeaconHeaderSize + kBeaconFixedSize

\* Bytes of buf behind element_id and length.
SsidRoom(f) == f.len - (SsidOffset + 2)

\* memcpy(ssid_string, ssid_ptr->ssid, ssid_length): the bytes copied.  What
\* lies behind the end of buf is not the buffer's: -1 stands for those bytes.
SsidCopied_Fixed32(f, e) ==
    [i \in 1 .. 32 |-> IF i <= Len(e.bytes) THEN e.bytes[i] ELSE 0]
SsidCopied(f, e) ==
    [i \in 1 .. (IF e.len > SsidRoom(f) THEN SsidRoom(f) ELSE e.len) |->
        IF i <= Len(e.bytes) THEN e.bytes[i] ELSE 0]
    \o (IF e.len > SsidRoom(f) THEN << -1 >> ELSE << >>)

\* Offsets of buf the memcpy reads up to.
SsidReadEnd(f, e) == SsidOffset + 2 + e.len

\* The array declared right after array a in sketch s, "none" after the last.
NextArray(s, a) ==
    LET i == CHOOSE k \in 1 .. Len(ArrayOrder) : ArrayOrder[k] = a
    IN  IF i < Len(ArrayOrder) /\ ArrayOrder[i + 1] \in DeclaredArrays(s)
        THEN ArrayOrder[i + 1] ELSE "none"

\* array[slot]++.  With slot in 0..14 the element is incremented.  A slot of
\* 15 is past the end of the array: the behaviour is undefined, and the
\* write lands either on the first element of the array laid out next, or
\* on memory that holds no counter.
WriteOutcomes(s, c, a, slot) ==
    IF slot \in Slots
    THEN { [cnt |-> [c EXCEPT ![a][slot] = ULongInc(@)], stray |-> 0] }
    ELSE { [cnt |-> c, stray |-> 1] } \cup
         ( IF NextArray(s, a) # "none" /\ (slot - kSlotCount) \in Slots
           THEN { [cnt |-> [c EXCEPT ![NextArray(s, a)][slot - kSlotCount]
                                          = ULongInc(@)],
                   stray |-> 0] }
           ELSE {} )

NoEntry == [cnt |-> ZeroCounters, ch |-> 0, stray |-> 0]

NoLoad == [on |-> FALSE, f |-> NoFrame, value |-> 0]

\* Where the callback goes after the length switch.
AfterLength(s, f) == IF Decoded(s, f.len) THEN "hdr" ELSE "ret"

\* The radio delivers a frame; gCallbackCount[0]++ (gCallbackCount++ in
\* "Simple").
CbEnter(f) ==
    /\ cbpc = "idle"
    /\ framesSeen < env.maxFrames
    /\ ULongSub(Total, prevBlinkCallbackCount) < env.burst
    /\ f \in env.frames
    /\ frame' = f
    /\ framesSeen' = framesSeen + 1
    /\ entry' = [cnt |-> cnt, ch |-> gCurrentChannel, stray |-> stray]
    /\ cnt' = [cnt EXCEPT !["gCallbackCount"][0] = ULongInc(@)]
    /\ cbpc' = IF HasScan(sketch) THEN "total_ch"
               ELSE IF sketch = "Blink" THEN "ret" ELSE "len"
    /\ \E e \in env.elements : ie' = e
    /\ cbOut' = {}
    /\ readEnd' = 0
    /\ ssid' = << >>
    /\ UNCHANGED << envVars, loaded, now, bytesSent, serialIn, gCurrentChannel, stray,
                    radioVars, loopVars, heap >>

\* The radio delivers a frame and the callback reads gCallbackCount[0] for
\* its ++ (the counter is neither volatile nor atomic: a load, an add and a
\* store); before the store the radio delivers another frame.
CbLoadTotal(f) ==
    /\ cbpc = "idle" /\ ~loaded.on
    /\ framesSeen < env.maxFrames
    /\ f \in env.frames
    /\ loaded' = [on |-> TRUE, f |-> f, value |-> Total]
    /\ framesSeen' = framesSeen + 1
    /\ UNCHANGED << envVars, now, bytesSent, serialIn, gCurrentChannel, cnt,
                    stray, radioVars, loopVars, cbpc, frame, entry, cbOut,
                    ssidVars >>

\* The preempted invocation resumes: it stores the value it had read, plus
\* one, and goes on.
CbStoreTotal ==
    /\ cbpc = "idle" /\ loaded.on
    /\ frame' = loaded.f
    /\ entry' = [cnt |-> cnt, ch |-> gCurrentChannel, stray |-> stray]
    /\ cnt' = [cnt EXCEPT !["gCallbackCount"][0] = ULongInc(loaded.value)]
    /\ cbpc' = IF HasScan(sketch) THEN "total_ch"
               ELSE IF sketch = "Blink" THEN "ret" ELSE "len"
    /\ \E e \in env.elements : ie' = e
    /\ cbOut' = {}
    /\ readEnd' = 0
    /\ ssid' = << >>
    /\ loaded' = NoLoad
    /\ UNCHANGED << envVars, now, bytesSent, serialIn, gCurrentChannel, stray,
                    radioVars, loopVars, heap, framesSeen >>

\* array[gCurrentChannel]++ for the array the callback is at.
CbChannelWrite(at, a, next) ==
    /\ cbpc = at
    /\ \E o \in WriteOutcomes(sketch, cnt, a, gCurrentChannel) :
          /\ cnt' = o.cnt
          /\ stray' = stray + o.stray
    /\ cbpc' = next
    /\ UNCHANGED << envVars, loaded, now, bytesSent, serialIn, gCurrentChannel,
                    radioVars, loopVars, frame, entry, framesSeen, cbOut,
                    ssidVars >>

\* array[0]++ for the array the callback is at, and the Serial.print calls
\* of that branch.
CbTotalWrite(at, a, next, printed) ==
    /\ cbpc = at
    /\ cnt' = [cnt EXCEPT ![a][0] = ULongInc(@)]
    /\ cbOut' = cbOut \cup printed
    /\ cbpc' = next
    /\ UNCHANGED << envVars, loaded, now, bytesSent, serialIn, gCurrentChannel, stray,
                    radioVars, loopVars, frame, entry, framesSeen, ssidVars >>

\* gCallbackCount[gCurrentChannel]++;
CbTotalChannel == CbChannelWrite("total_ch", "gCallbackCount", "len")

\* switch (len): gDatagramCount_xxx[0]++;
CbLength ==
    CbTotalWrite("len", LengthArray(frame.len),
                 IF HasScan(sketch) THEN "len_ch"
                 ELSE AfterLength(sketch, frame),
                 {})

\* switch (len): gDatagramCount_xxx[gCurrentChannel]++;
CbLengthChannel ==
    CbChannelWrite("len_ch", LengthArray(frame.len),
                   AfterLength(sketch, frame))

\* the type dispatch: gDatagramTypeXxxxCount[0]++;
CbType ==
    CbTotalWrite("type", TypeArray(FcType(frame.fc)), "type_ch",
                 {TypeTag(FcType(frame.fc))})

\* the type dispatch: gDatagramTypeXxxxCount[gCurrentChannel]++;
CbTypeChannel ==
    CbChannelWrite("type_ch", TypeArray(FcType(frame.fc)),
                   IF CountsSubtype(sketch, frame.fc) THEN "sub"
                   ELSE IF ExtractsSsid(sketch, frame) THEN "ssid"
                   ELSE "ret")

\* the management subtype dispatch: gDatagramXxxxCount[0]++;
CbSubtype ==
    CbTotalWrite("sub", SubtypeArray(FcSubtype(frame.fc)), "sub_ch", {})

\* the management subtype dispatch: gDatagramXxxxCount[gCurrentChannel]++;
CbSubtypeChannel ==
    CbChannelWrite("sub_ch", SubtypeArray(FcSubtype(frame.fc)), "ret")

\* The datagram sketch allocates a MAC header and a frame-control block,
\* copies the header out of buf and tests the protocol version; the decoding
\* sketch casts buf and reads the frame-control field in place.
CbHeader ==
    /\ cbpc = "hdr"
    /\ heap' = heap + HeaderBlocks(sketch)
    /\ readEnd' = HeaderReadEnd(sketch)
    /\ cbOut' = IF sketch = "Datagram" /\ BadProtocol(frame.fc)
                THEN cbOut \cup {"BAD PROTOCOL VALUE"} ELSE cbOut
    /\ cbpc' = "type"
    /\ UNCHANGED << envVars, loaded, now, bytesSent, serialIn, gCurrentChannel, cnt,
                    stray, radioVars, loopVars, frame, entry, framesSeen,
                    ie, ssid >>

\* if (ssid_ptr->element_id != 0) ... else { ssid_length = ssid_ptr->length;
\* if (ssid_length > 0) { ssid_string = new char[ssid_length + 1](); ...
CbSsid ==
    /\ cbpc = "ssid"
    /\ IF ie.id # 0
       THEN /\ cbOut' = cbOut \cup {"BAD ELEMENT ID"}
            /\ readEnd' = SsidOffset + 1
            /\ heap' = heap
            /\ cbpc' = "ret"
       ELSE /\ cbOut' = cbOut
            /\ readEnd' = SsidOffset + 2
            /\ heap' = IF ie.len > 0 THEN heap + 1 ELSE heap
            /\ cbpc' = IF ie.len > 0 THEN "ssid_copy" ELSE "ret"
    /\ UNCHANGED << envVars, loaded, now, bytesSent, serialIn, gCurrentChannel, cnt,
                    stray, radioVars, loopVars, frame, entry, framesSeen,
                    ie, ssid >>

\* memcpy(ssid_string, ssid_ptr->ssid, ssid_length); the terminator;
\* Serial.printf("SSID - %s", ssid_string);
CbSsidCopy ==
    /\ cbpc = "ssid_copy"
    /\ ssid' = SsidCopied(frame, ie)
    /\ readEnd' = SsidReadEnd(frame, ie)
    /\ cbOut' = cbOut \cup {"SSID"}
    /\ cbpc' = "ssid_free"
    /\ UNCHANGED << envVars, loaded, now, bytesSent, serialIn, gCurrentChannel, cnt,
                    stray, radioVars, loopVars, frame, entry, framesSeen,
                    ie, heap >>

\* delete(ssid_string);
CbSsidFree ==
    /\ cbpc = "ssid_free"
    /\ heap' = heap - 1
    /\ cbpc' = "ret"
    /\ UNCHANGED << envVars, loaded, now, bytesSent, serialIn, gCurrentChannel, cnt,
                    stray, radioVars, loopVars, frame, entry, framesSeen,
                    ie, cbOut, readEnd, ssid >>

\* The callback returns.
CbReturn ==
    /\ cbpc = "ret"
    /\ cbpc' = "idle"
    /\ frame' = NoFrame
    /\ entry' = NoEntry
    /\ ie' = NoElement
    /\ cbOut' = {}
    /\ readEnd' = 0
    /\ ssid' = << >>
    /\ UNCHANGED << envVars, loaded, now, bytesSent, serialIn, gCurrentChannel, cnt,
                    stray, radioVars, loopVars, framesSeen, heap >>

(***************************************************************************)
(* The environment: time passes, the operator types.                       *)
(***************************************************************************)
\* millis() advances by d, modulo 2^32.  The run begins with the clock at
\* env.origin and lasts env.horizon milliseconds (a horizon of 2^32 - 1 lets
\* the clock run on for ever), and loop() is never more than env.late behind
\* the end of a dwell.
Tick(d) ==
    /\ cbpc = "idle"
    /\ d \in env.steps
    /\ \/ ULongLeq(ULongSub(now, env.origin),
                    ULongSub(ULongAdd(now, d), env.origin))
       \/ env.horizon = kULongMax
    /\ ULongLeq(ULongSub(ULongAdd(now, d), env.origin), env.horizon)
    /\ ULongLeq(ULongSub(ULongAdd(now, d),
                         IF staticInit THEN prevSwitchTime ELSE now),
                kScanTimeMillis + env.late)
    /\ now' = ULongAdd(now, d)
    /\ radioAge' = IF radioAge > kLongMax - d THEN kLongMax ELSE radioAge + d
    /\ UNCHANGED << envVars, bytesSent, serialIn, gCurrentChannel, cnt, stray,
                    radioChannel, radioCalls, loopVars, cbVars >>

\* The operator sends byte b over the serial line.
OperatorSend(b) ==
    /\ cbpc = "idle"
    /\ bytesSent < env.maxBytes
    /\ b \in env.bytes
    /\ serialIn' = Append(serialIn, b)
    /\ bytesSent' = bytesSent + 1
    /\ UNCHANGED << envVars, now, gCurrentChannel, cnt, stray, radioVars,
                    loopVars, cbVars >>

(***************************************************************************)
(* The state after setup(): gCurrentChannel = 1 has been applied to the    *)
(* radio, every counter is zero, the callback is registered.               *)
(***************************************************************************)
InitWith(counters, baseline, started) ==
    /\ now = env.origin
    /\ framesSeen = 0
    /\ bytesSent = 0
    /\ serialIn = << >>
    /\ gCurrentChannel = 1
    /\ cnt = counters
    /\ stray = 0
    /\ radioChannel = IF HasScan(sketch) THEN 1 ELSE kSimpleChannel
    /\ radioCalls = 1
    /\ radioAge = 0
    /\ pc = LoopEntry(sketch)
    /\ staticInit = started
    /\ prevSwitchTime = IF started THEN env.origin ELSE 0
    /\ currentTime = 0
    /\ timeDelta = 0
    /\ iter = [ch |-> 1, prev |-> 0, calls |-> 1]
    /\ prevBlinkCallbackCount = baseline
    /\ prevPrintCallbackCount = baseline
    /\ serial_input = "none"
    /\ bReportRequestd = FALSE
    /\ bFullReportRequestd = FALSE
    /\ packetsDetectedSinceLastPrint = 0
    /\ idx = 0
    /\ blinks = 0
    /\ out = NoOutput
    /\ reportLines = << >>
    /\ reportTotal = -1
    /\ cbpc = "idle"
    /\ frame = NoFrame
    /\ entry = NoEntry
    /\ ie = NoElement
    /\ heap = 0
    /\ cbOut = {}
    /\ readEnd = 0
    /\ ssid = << >>
    /\ loaded = NoLoad

\* The state after setup(): the zero-initialised globals, loop() not yet
\* entered.
InitProgram == InitWith(ZeroCounters, 0, FALSE)


(***************************************************************************)
(* Bounded environments.  A run delivers at most env.maxFrames frames,     *)
(* drawn from env.frames, and at most env.maxBytes operator bytes, drawn   *)
(* from env.bytes; millis() advances in the steps of env.steps up to       *)
(* env.horizon.  Fewer than env.burst frames arrive between two tests of   *)
(* the LED blink logic that find a blink due.                              *)
(***************************************************************************)
MaxFrames == 2
MaxBeaconFrames == 2
MaxBurst == 6
MaxBytes == 1
MaxOperatorFrames == 1
MaxDwells == 15
MaxWrapFrames == 1

\* First frame-control bytes: Assoc, Probe, Beacon, Disassoc, another
\* management subtype, Control, Data, Reserved, a Beacon whose protocol
\* version is 1 and a Data frame whose protocol version is 2.
FcBytes == {0, 64, 128, 160, 16, 4, 8, 12, 129, 10}

\* Buffer lengths: the three known ones, one below and one above the size
\* of the MAC header among the others.
Lens == {11, 12, 30, 60, 128}

FramesOfLen(l) == { [len |-> l, fc |-> b] : b \in FcBytes }
AllFrames == UNION { FramesOfLen(l) : l \in Lens }
PlainFrames == { [len |-> 12, fc |-> 0] }

OperatorBytes == {"\n", "f", "F", "x"}

NoTime == [steps |-> {}, horizon |-> 0, late |-> 0]
OneDwell == [steps |-> {kScanTimeMillis}, horizon |-> kScanTimeMillis, late |-> 0]

Environment(maxFrames, frames, maxBytes, bytes, time) ==
    [maxFrames |-> maxFrames, frames |-> frames, burst |-> maxFrames,
     elements |-> {NoElement},
     maxBytes |-> maxBytes, bytes |-> bytes,
     steps |-> time.steps, horizon |-> time.horizon, late |-> time.late,
     origin |-> 0]

\* Traffic of one buffer length, every frame-control byte, across one
\* channel switch.
TrafficEnvs ==
    { Environment(MaxFrames, FramesOfLen(l), 0, {}, OneDwell) : l \in Lens }

\* An operator at the serial line, little traffic.
OperatorEnv ==
    Environment(MaxOperatorFrames, PlainFrames, MaxBytes, OperatorBytes, NoTime)

\* A burst of frames, enough for the LED to blink.
BurstEnv == Environment(MaxBurst, PlainFrames, 0, {}, NoTime)

\* First elements of a beacon body: no SSID, "TEST", one that fills the
\* buffer to its last byte, one that is a byte longer, the longest a length
\* byte can announce, and two whose element id is not the SSID's.
BeaconElements ==
    { [id |-> 0, len |-> 0, bytes |-> << >>],
      [id |-> 0, len |-> 4, bytes |-> << 84, 69, 83, 84 >>],
      [id |-> 0, len |-> 78, bytes |-> << 65 >>],
      [id |-> 0, len |-> 79, bytes |-> << 65 >>],
      [id |-> 0, len |-> 255, bytes |-> << 65 >>],
      [id |-> 1, len |-> 4, bytes |-> << 84, 69, 83, 84 >>],
      [id |-> 3, len |-> 255, bytes |-> << 65 >>] }

BeaconFrames == { [len |-> 128, fc |-> 128] }

\* Beacons in 128-byte buffers on one channel.
BeaconEnv ==
    [Environment(MaxBeaconFrames, BeaconFrames, 0, {}, NoTime)
        EXCEPT !.elements = BeaconElements]

Init ==
    /\ sketch \in Sketches
    /\ env \in TrafficEnvs \cup {OperatorEnv, BurstEnv, BeaconEnv}
    /\ InitProgram

LoopNext ==
    \/ LoopScanCheck
    \/ LoopIncChannel
    \/ LoopWrapChannel
    \/ LoopSetChannel
    \/ LoopBlinkCheck
    \/ LoopBlinkDone
    \/ LoopSerial
    \/ LoopReportCheck
    \/ LoopPrintReportLine
    \/ LoopPrintReportTotal
    \/ LoopSetPrevPrint
    \/ LoopPrintChannelReport
    \/ LoopReturn

CallbackNext ==
    \/ \E f \in AllFrames : CbEnter(f)
    \/ CbTotalChannel
    \/ CbLength
    \/ CbLengthChannel
    \/ CbHeader
    \/ CbType
    \/ CbTypeChannel
    \/ CbSubtype
    \/ CbSubtypeChannel
    \/ CbSsid
    \/ CbReturn

\* The copy of an SSID, which needs a beacon with an SSID element.
SsidNext ==
    \/ CbSsidCopy
    \/ CbSsidFree

Next ==
    \/ LoopNext
    \/ CallbackNext
    \/ SsidNext
    \/ \E d \in env.steps : Tick(d)
    \/ \E b \in OperatorBytes : OperatorSend(b)

Spec == Init /\ [][Next]_vars


(***************************************************************************)
(* The scan scheduler alone: no traffic, no operator; millis() advances in *)
(* steps of 29 s and 30 s, so that loop() sees 0, 29, 30, 58, 59 and 60 s  *)
(* elapsed since the last switch.                                          *)
(***************************************************************************)
SchedEnv ==
    Environment(0, {}, 0, {},
                [steps |-> {29000, 30000},
                 horizon |-> MaxDwells * kScanTimeMillis,
                 late |-> 1000])

InitSched ==
    /\ sketch \in {"Scan", "ScanDecode", "Datagram"}
    /\ env = SchedEnv
    /\ InitProgram

NextSched ==
    \/ LoopScanCheck
    \/ LoopIncChannel
    \/ LoopWrapChannel
    \/ LoopSetChannel
    \/ LoopBlinkCheck
    \/ LoopSerial
    \/ LoopReportCheck
    \/ LoopReturn
    \/ \E d \in env.steps : Tick(d)

SpecSched == InitSched /\ [][NextSched]_vars

(***************************************************************************)
(* Traffic while the scheduler goes once around all the channels.          *)
(***************************************************************************)
\* A buffer without header, a Control frame, a Beacon in a 128-byte and one
\* in a 60-byte buffer, and two buffers of other lengths: one shorter than
\* the MAC header, one that holds a Data frame.
WrapFrames ==
    { [len |-> 12, fc |-> 0], [len |-> 60, fc |-> 4], [len |-> 128, fc |-> 128],
      [len |-> 60, fc |-> 128], [len |-> 11, fc |-> 0], [len |-> 30, fc |-> 8] }

WrapEnv ==
    Environment(MaxWrapFrames, WrapFrames, 0, {},
                [steps |-> {kScanTimeMillis},
                 horizon |-> MaxDwells * kScanTimeMillis,
                 late |-> 0])

InitWrap ==
    /\ sketch \in {"Scan", "ScanDecode", "Datagram"}
    /\ env = WrapEnv
    /\ InitProgram

NextWrap ==
    \/ LoopScanCheck
    \/ LoopIncChannel
    \/ LoopWrapChannel
    \/ LoopSetChannel
    \/ LoopBlinkCheck
    \/ LoopSerial
    \/ LoopReportCheck
    \/ LoopReturn
    \/ CallbackNext
    \/ \E d \in env.steps : Tick(d)

SpecWrap == InitWrap /\ [][NextWrap]_vars


(***************************************************************************)
(* Steady traffic of short buffers, enough of it to pass the sketch's      *)
(* report threshold; no operator, no channel switch.                       *)
(***************************************************************************)
MaxReportExtra == 2

ReportEnv(s) ==
    [ Environment(ReportThreshold(s) + MaxReportExtra, PlainFrames, 0, {}, NoTime)
        EXCEPT !.burst = MaxBurst ]

InitReport ==
    /\ sketch \in Sketches
    /\ env = ReportEnv(sketch)
    /\ InitProgram

NextReport ==
    \/ LoopScanCheck
    \/ LoopBlinkCheck
    \/ LoopBlinkDone
    \/ LoopSerial
    \/ LoopReportCheck
    \/ LoopPrintReportLine
    \/ LoopPrintReportTotal
    \/ LoopSetPrevPrint
    \/ LoopReturn
    \/ \E f \in PlainFrames : CbEnter(f)
    \/ CbTotalChannel
    \/ CbLength
    \/ CbLengthChannel
    \/ CbReturn

SpecReport == InitReport /\ [][NextReport]_vars


(***************************************************************************)
(* The scan scheduler with a main loop that is held up: no traffic, no     *)
(* operator; millis() advances by one or by three dwell periods between    *)
(* two statements of loop(), so that a scheduler step finds up to four     *)
(* dwell periods elapsed.                                                  *)
(***************************************************************************)
MaxLateDwells == 18

LateEnv ==
    Environment(0, {}, 0, {},
                [steps |-> {kScanTimeMillis, 3 * kScanTimeMillis},
                 horizon |-> MaxLateDwells * kScanTimeMillis,
                 late |-> 3 * kScanTimeMillis])

InitLate ==
    /\ sketch \in {"Scan", "ScanDecode", "Datagram"}
    /\ env = LateEnv
    /\ InitProgram

SpecLate == InitLate /\ [][NextSched]_vars


(***************************************************************************)
(* The scan scheduler of a sketch that has been running for 49 days: the   *)
(* run begins at a channel switch less than three dwell periods before     *)
(* millis() goes from 2^32 - 1 to 0, and goes on past it; millis() advances *)
(* in steps of 29 s and 30 s.  A reading of the clock from before the wrap *)
(* is a negative number here (2^32 less than its unsigned value), so over  *)
(* this run the plain difference of two readings is the time that elapsed  *)
(* between them.                                                           *)
(***************************************************************************)
MaxRolloverDwells == 5

\* Milliseconds from the beginning of the run to the wrap of the clock.
RolloverLeads == {30000, 59000, 60000, 89000, 150000}

RolloverEnv(lead) ==
    [ Environment(0, {}, 0, {},
                  [steps |-> {29000, 30000},
                   horizon |-> MaxRolloverDwells * kScanTimeMillis,
                   late |-> 1000])
        EXCEPT !.origin = 0 - lead ]

InitRollover ==
    /\ sketch \in {"Scan", "ScanDecode", "Datagram"}
    /\ env \in { RolloverEnv(l) : l \in RolloverLeads }
    /\ InitWith(ZeroCounters, 0, TRUE)

SpecRollover == InitRollover /\ [][NextSched]_vars


(***************************************************************************)
(* The scan scheduler for the lifetime of the process: no traffic, no      *)
(* operator; millis() advances in steps of 2^26 ms and wraps after 2^32,   *)
(* loop() keeps running and the clock keeps advancing.                     *)
(***************************************************************************)
LiveEnv ==
    Environment(0, {}, 0, {},
                [steps |-> {67108864},
                 horizon |-> kULongMax,
                 late |-> 67108864])

InitLive ==
    /\ sketch \in {"Scan", "ScanDecode", "Datagram"}
    /\ env = LiveEnv
    /\ InitProgram

\* loop() is called again and again; millis() advances.
LiveFairness ==
    /\ WF_vars(LoopNext)
    /\ WF_vars(\E d \in env.steps : Tick(d))

SpecLive == InitLive /\ [][NextSched]_vars /\ LiveFairness


(***************************************************************************)
(* A few short buffers, no operator, no channel switch; the radio may      *)
(* deliver a frame while an invocation of the callback is between the read *)
(* and the write of gCallbackCount[0]++.                                   *)
(***************************************************************************)
MaxNestedFrames == 3

NestedEnv == Environment(MaxNestedFrames, PlainFrames, 0, {}, NoTime)

InitNested ==
    /\ sketch \in {"Simple", "Datagram"}
    /\ env = NestedEnv
    /\ InitProgram

NextNested ==
    \/ LoopScanCheck
    \/ LoopBlinkCheck
    \/ LoopSerial
    \/ LoopReportCheck
    \/ LoopReturn
    \/ \E f \in PlainFrames : CbEnter(f)
    \/ \E f \in PlainFrames : CbLoadTotal(f)
    \/ CbStoreTotal
    \/ CbTotalChannel
    \/ CbLength
    \/ CbLengthChannel
    \/ CbReturn

SpecNested == InitNested /\ [][NextNested]_vars


(***************************************************************************)
(* The LED blink logic of the first and of the last sketch under a burst   *)
(* of short buffers, from power-up and after a long time of capturing,     *)
(* when the count is about to go past the largest value of its type (long  *)
(* in 001, unsigned long in 004).                                          *)
(***************************************************************************)
MaxBlinkFrames == 11

BlinkEnv ==
    [ Environment(MaxBlinkFrames, PlainFrames, 0, {}, NoTime)
        EXCEPT !.burst = MaxBurst ]

\* The count just below the largest value of its type, the blink baseline
\* level with it.
BlinkStart(s) == IF s = "Blink" THEN kLongMax - 2 ELSE kULongMax - 2

InitBlink ==
    /\ sketch \in {"Blink", "Datagram"}
    /\ env = BlinkEnv
    /\ \/ InitProgram
       \/ InitWith([ZeroCounters EXCEPT !["gCallbackCount"][0] = BlinkStart(sketch)],
                   BlinkStart(sketch), TRUE)

NextBlink ==
    \/ LoopScanCheck
    \/ LoopBlinkCheck
    \/ LoopBlinkDone
    \/ LoopSerial
    \/ LoopReportCheck
    \/ LoopReturn
    \/ \E f \in PlainFrames : CbEnter(f)
    \/ CbTotalChannel
    \/ CbLength
    \/ CbLengthChannel
    \/ CbReturn

SpecBlink == InitBlink /\ [][NextBlink]_vars


(***************************************************************************)
(* A sketch that has been capturing for a long time: 2^32 - 2 buffers of   *)
(* 12 bytes so far, spread over the 14 channels, the last of them already  *)
(* seen by the blink and report logic of loop().                           *)
(***************************************************************************)
MaxOverflowFrames == 3

\* 2^32 - 2 = 14 * (kLongMax \div 7) + 2: every channel has counted
\* kLongMax \div 7 buffers, channel 1 two more.
NearWrapSlots ==
    [s \in Slots |-> IF s = 0 THEN -2
                     ELSE IF s = 1 THEN (kLongMax \div 7) + 2
                     ELSE kLongMax \div 7]

NearWrapCounters ==
    [a \in Arrays |-> IF a \in {"gCallbackCount", "gDatagramCount_012"}
                      THEN NearWrapSlots
                      ELSE [s \in Slots |-> 0]]

OverflowEnv == Environment(MaxOverflowFrames, PlainFrames, 0, {}, NoTime)

InitOverflow ==
    /\ sketch \in {"Scan", "ScanDecode", "Datagram"}
    /\ env = OverflowEnv
    /\ InitWith(NearWrapCounters, -2, TRUE)

NextOverflow ==
    \/ LoopScanCheck
    \/ LoopBlinkCheck
    \/ LoopSerial
    \/ LoopReportCheck
    \/ LoopReturn
    \/ \E f \in PlainFrames : CbEnter(f)
    \/ CbTotalChannel
    \/ CbLength
    \/ CbLengthChannel
    \/ CbReturn

SpecOverflow == InitOverflow /\ [][NextOverflow]_vars


(***************************************************************************)
(* Properties                                                              *)
(***************************************************************************)
RECURSIVE SumSlots(_, _, _)
\* c[a][1] + ... + c[a][n]
SumSlots(c, a, n) == IF n = 0 THEN 0 ELSE c[a][n] + SumSlots(c, a, n - 1)

\* No callback invocation is in progress.
Quiescent == cbpc = "idle"

\* C1: in the channel-scanning sketches the aggregate total gCallbackCount[0]
\* equals gCallbackCount[1] + ... + gCallbackCount[14].  Stated here for the
\* states loop() can observe (no invocation in progress), where the claim is
\* weakest; it fails there too: a callback that runs between loop()'s
\* gCurrentChannel++ on channel 14 and the wrap to 1 counts the frame in
\* slot 0 and in no slot 1..14.
C1_TotalIsSumOfChannels ==
    (HasScan(sketch) /\ Quiescent) =>
        cnt["gCallbackCount"][0] = SumSlots(cnt, "gCallbackCount", kChannelMax)

\* C2: for every length-bucket, frame-type and management-subtype counter,
\* slot 0 equals the sum of slots 1..14 (again for the states in which no
\* invocation is in progress).
C2_EveryFieldIsSumOfChannels ==
    (HasScan(sketch) /\ Quiescent) =>
        \A a \in LengthArrays \cup TypeArrays \cup SubtypeArrays :
            cnt[a][0] = SumSlots(cnt, a, kChannelMax)

\* C5: whenever the callback is about to index a counter array with
\* gCurrentChannel, gCurrentChannel is in 1..14.
C5_CallbackChannelInRange ==
    cbpc \in {"total_ch", "len_ch", "type_ch", "sub_ch"} =>
        gCurrentChannel \in Channels


\* What one invocation has added to counter a, slot s, so far.
Delta(a, s) == cnt[a][s] - entry.cnt[a][s]

\* The invocation in progress has executed its last statement.
InvocationDone == cbpc = "ret"

\* Array a went up by exactly one in slot 0 and in the channel slot.
CountedOnce(a) == Delta(a, 0) = 1 /\ Delta(a, entry.ch) = 1

\* Exactly one array of the family S was counted once, the others not at all.
OneOf(S) ==
    \E a \in S :
        /\ CountedOnce(a)
        /\ \A b \in S \ {a} : \A s \in Slots : Delta(b, s) = 0

BucketOf(n) ==
    IF n = 12 THEN "gDatagramCount_012"
    ELSE IF n = 60 THEN "gDatagramCount_060"
    ELSE IF n = 128 THEN "gDatagramCount_128"
    ELSE "gDatagramCount_Other"

\* The buffers whose frame-control field the sketch reads.
ReadsHeader(s, n) ==
    \/ s = "Datagram" /\ n >= 24
    \/ s = "ScanDecode" /\ n \in {60, 128}

\* The frame-type counter of frame-control byte b.
TypeCounterOf(b) ==
    << "gDatagramTypeMgmtCount", "gDatagramTypeCntlCount",
       "gDatagramTypeDataCount", "gDatagramTypeRsrvCount" >>[((b \div 4) % 4) + 1]

\* The management-subtype counters of frame-control byte b: one for
\* AssocReq, ProbeReq, Beacon and Disassoc, none for the other subtypes.
SubtypeCountersOf(b) ==
    IF (b \div 4) % 4 # 0 THEN {}
    ELSE IF b \div 16 = 0 THEN {"gDatagramAssocCount"}
    ELSE IF b \div 16 = 4 THEN {"gDatagramProbeCount"}
    ELSE IF b \div 16 = 8 THEN {"gDatagramBeaconCount"}
    ELSE IF b \div 16 = 10 THEN {"gDatagramDisassocCount"}
    ELSE {}

\* The counters one invocation of sketch s on frame f adds one to.
CountedArrays(s, f) ==
    {"gCallbackCount"}
    \cup (IF s = "Blink" THEN {} ELSE {BucketOf(f.len)})
    \cup (IF ReadsHeader(s, f.len) THEN {TypeCounterOf(f.fc)} ELSE {})
    \cup (IF s = "Datagram" /\ ReadsHeader(s, f.len)
          THEN SubtypeCountersOf(f.fc) ELSE {})

\* The slots one invocation writes for each counter it counts: slot 0 and
\* the slot of the channel it read (slot 0 alone in Simple).
CountedSlots == IF HasScan(sketch) THEN {0, entry.ch} ELSE {0}

RECURSIVE SumDelta0(_)
\* What one invocation has added to slot 0 of the arrays in S, together.
SumDelta0(S) ==
    IF S = {} THEN 0
    ELSE LET a == CHOOSE x \in S : TRUE IN Delta(a, 0) + SumDelta0(S \ {a})

AtCounterRead ==
    pc \in {"blink", "blinkset", "printchk", "report", "setprint", "fullrep"}

\* The invocation in progress, if any, has made all of its increments.
InvocationComplete ==
    \A a \in Arrays : \A s \in Slots :
        Delta(a, s) =
           IF a \in CountedArrays(sketch, frame) /\ s \in CountedSlots
           THEN 1 ELSE 0

AfterSchedulerStep ==
    /\ HasScan(sketch)
    /\ pc \in {"blink", "blinkset", "serial", "printchk", "report",
               "setprint", "fullrep", "end"}

\* C6: a scheduler step that finds now - dwellStart >= 60 s sets the channel
\* to (channel % 14) + 1, sets dwellStart to the time it read, and calls
\* wifi_set_channel exactly once, with the new channel.
C6_DueStepAdvances ==
    (AfterSchedulerStep /\ timeDelta >= 60000) =>
        /\ gCurrentChannel = (iter.ch % 14) + 1
        /\ prevSwitchTime = currentTime
        /\ currentTime = iter.prev + timeDelta
        /\ radioCalls = iter.calls + 1
        /\ out.setch = 1
        /\ radioChannel = gCurrentChannel

\* The step that leaves channel 14 has just finished: channel 1, applied to
\* the radio, dwell restarted.
C6_Witness ==
    /\ pc = "blink" /\ sketch = "Datagram"
    /\ timeDelta = 60000 /\ iter.ch = 14
    /\ gCurrentChannel = 1 /\ radioChannel = 1
    /\ prevSwitchTime = now

\* C7: a scheduler step that finds now - dwellStart < 60 s changes nothing
\* (channel, dwellStart, no wifi_set_channel call); one that finds exactly
\* 60 s advances.
C7_EarlyStepIsNoOp ==
    /\ (AfterSchedulerStep /\ timeDelta < 60000) =>
          /\ gCurrentChannel = iter.ch
          /\ prevSwitchTime = iter.prev
          /\ radioCalls = iter.calls
          /\ out.setch = 0
    /\ (AfterSchedulerStep /\ timeDelta = 60000) =>
          /\ gCurrentChannel # iter.ch
          /\ radioCalls = iter.calls + 1

\* A scheduler step has run 59 s after the dwell began and left everything
\* as it was.
C7_Witness ==
    /\ pc = "blink" /\ HasScan(sketch)
    /\ timeDelta = 59000 /\ currentTime = prevSwitchTime + 59000
    /\ gCurrentChannel = iter.ch /\ radioCalls = iter.calls

\* C8: the scheduler starts on channel 1 and goes 1, 2, ..., 14, 1, ...:
\* outside an advance in progress, after n advances the channel is
\* (n mod 14) + 1, so 14 is followed by 1 and 14 advances return to the
\* same channel.  (radioCalls - 1 is the number of completed advances.)
C8_ChannelsCycle ==
    (HasScan(sketch) /\ pc \notin {"wrap", "setch"}) =>
        gCurrentChannel = ((radioCalls - 1) % 14) + 1

\* Fourteen advances have been made and the scanner is on channel 1 again.
C8_Witness ==
    /\ HasScan(sketch) /\ pc = "blink"
    /\ radioCalls = 15 /\ gCurrentChannel = 1 /\ iter.ch = 14


\* The summary report is being emitted (print_report, then the baseline).
InSummary == pc \in {"report", "setprint"}

\* loop() has finished the report logic of an iteration that read no
\* operator request; packetsDetectedSinceLastPrint is what it computed.
AutoIterationDone == pc = "end" /\ ~bReportRequestd

\* C9 as claimed, with the one threshold of 100 frames for every sketch: an
\* iteration without operator request emits no summary when it finds fewer
\* than 100 frames since the last one, and emits one when it finds 100 or
\* more.
C9_SummaryAtHundred ==
    /\ (AutoIterationDone /\ packetsDetectedSinceLastPrint < 100) => out.summary = 0
    /\ (AutoIterationDone /\ packetsDetectedSinceLastPrint >= 100) => out.summary = 1

\* The threshold of the automatic summary: 500 frames in the decoding scan
\* sketch, 100 in the others.
C9_Threshold == IF sketch = "ScanDecode" THEN 500 ELSE 100

\* C9, amended: with "frames since the last summary" being gCallbackCount[0]
\* minus the baseline loop() took after the last summary, an iteration
\* without operator request emits no summary when it finds fewer than the
\* sketch's threshold (100; 500 in the decoding scan sketch), emits exactly
\* one when it finds at least the threshold, and the assignment of the
\* baseline that follows the summary makes the count 0.
C9_SummaryAtThreshold ==
    /\ [](/\ (AutoIterationDone /\ packetsDetectedSinceLastPrint < C9_Threshold)
                => out.summary = 0
          /\ (AutoIterationDone /\ packetsDetectedSinceLastPrint >= C9_Threshold)
                => out.summary = 1
          /\ (InSummary /\ ~bReportRequestd)
                => packetsDetectedSinceLastPrint >= C9_Threshold)
    /\ [][ (pc = "setprint" /\ pc' # "setprint")
              => cnt'["gCallbackCount"][0] - prevPrintCallbackCount' = 0 ]_vars

\* The decoding scan sketch has emitted its automatic summary in the
\* iteration that found exactly 500 frames, having emitted none before.
C9_Witness ==
    /\ sketch = "ScanDecode" /\ AutoIterationDone
    /\ packetsDetectedSinceLastPrint = 500
    /\ out.summary = 1
    /\ reportTotal >= 500
    /\ prevPrintCallbackCount >= 500

\* C10: in the iteration that reads '\n', loop() emits the summary report
\* whatever the number of frames since the last one; in the iteration that
\* reads 'f' or 'F', a scanning sketch emits the channel report of every
\* slot 0..14.
C10_OperatorRequestsServed ==
    pc = "end" =>
        /\ serial_input = "\n" => out.summary = 1
        /\ (HasScan(sketch) /\ serial_input \in {"f", "F"}) => out.full = 0 .. 14

\* Datagram has read 'f' and printed the channel report of slots 0..14 in
\* the same iteration, without a summary.
C10_Witness ==
    /\ pc = "end" /\ sketch = "Datagram"
    /\ serial_input = "f"
    /\ out.full = 0 .. 14
    /\ out.summary = 0

\* The byte loop() read in this iteration is none of '\n', 'f', 'F'.
IgnoredByteRead == serial_input \notin {"none", "\n", "f", "F"}

\* C11: an operator byte other than '\n', 'f' and 'F' is consumed and
\* ignored: reading it changes no counter, not the channel and not the report
\* baseline; it requests neither report, so the iteration prints no full
\* report, and prints a summary (which moves the baseline) only if the frame
\* count since the last one has reached the threshold by itself.
C11_OtherBytesIgnored ==
    /\ []( (IgnoredByteRead /\ pc \in {"printchk", "report", "setprint", "fullrep", "end"})
             => /\ ~bReportRequestd /\ ~bFullReportRequestd
                /\ out.full = {}
                /\ pc # "fullrep"
                /\ (InSummary \/ out.summary > 0)
                      => packetsDetectedSinceLastPrint >= C9_Threshold )
    /\ [][ (pc = "serial" /\ pc' # "serial" /\ Len(serialIn) > 0
               /\ Head(serialIn) \notin {"\n", "f", "F"})
             => /\ serialIn' = Tail(serialIn)
                /\ cnt' = cnt
                /\ gCurrentChannel' = gCurrentChannel
                /\ prevPrintCallbackCount' = prevPrintCallbackCount ]_vars
    /\ [][ prevPrintCallbackCount' # prevPrintCallbackCount => pc = "setprint" ]_vars

\* loop() has read 'x' and finished the iteration: the byte is gone, nothing
\* was printed, the baseline is where it was, one frame stays counted.
C11_Witness ==
    /\ pc = "end" /\ serial_input = "x"
    /\ serialIn = << >> /\ bytesSent = 1
    /\ out.summary = 0 /\ out.full = {}
    /\ Total = 1 /\ prevPrintCallbackCount = 0

\* The invocation in progress is done and its buffer length is none of 12,
\* 60 and 128.
OtherLengthDone == InvocationDone /\ frame.len \notin {12, 60, 128}

C12_Counted ==
    {"gCallbackCount", "gDatagramCount_Other"}
    \cup (IF sketch = "Datagram" /\ frame.len >= 24
          THEN {TypeCounterOf(frame.fc)} \cup SubtypeCountersOf(frame.fc)
          ELSE {})

C13_ShortBufferNotDecoded ==
    /\ (cbpc \in {"type", "type_ch", "sub", "sub_ch"}) => frame.len >= 24
    /\ (InvocationDone /\ frame.len < 24) =>
          \A a \in Arrays \ {"gCallbackCount", BucketOf(frame.len)} :
              \A s \in Slots : Delta(a, s) = 0

\* ---------------------------------------------------------------------
\* C14: while it extracts the SSID of a beacon from a 128-byte buffer the
\* callback never reads a byte at or beyond the buffer's length, whatever
\* length (0..255) the element announces: every read of the invocation in
\* progress ends inside the buffer, and the SSID is copied only when the whole
\* element lies inside the buffer.
C14_SsidReadInsideBuffer ==
    (cbpc # "idle" /\ ExtractsSsid(sketch, frame)) =>
        /\ readEnd <= frame.len
        /\ (cbpc = "ssid_free" => SsidOffset + 2 + ie.len <= frame.len)
        /\ \A i \in 1 .. Len(ssid) : ssid[i] >= 0

\* C15: the callback does no serial output and allocates nothing on any
\* path: no invocation has printed anything, no block of the callback's is
\* ever on the heap, and so none is left there once an invocation has
\* returned, however many frames were captured.
C15_CallbackNoOutputNoHeap ==
    /\ cbOut = {}
    /\ heap = 0
    /\ cbpc = "idle" => heap = 0

\* C16: a frame the datagram sketch decodes whose protocol-version bits are
\* not zero is reported as an anomaly and still classified: when the
\* invocation returns it has printed the bad-protocol message and has added
\* one, in slot 0 and in the channel slot, to the frame-type counter and (for
\* an Assoc, Probe, Beacon or Disassoc management frame) to the subtype
\* counter that the same frame-control byte with protocol version 0 selects,
\* and to no other type or subtype counter.
C16_BadProtocolStillClassified ==
    (InvocationDone /\ sketch = "Datagram" /\ frame.len >= 24
        /\ frame.fc % 4 # 0) =>
        /\ "BAD PROTOCOL VALUE" \in cbOut
        /\ LET twin == frame.fc - (frame.fc % 4)
               counted == {TypeCounterOf(twin)} \cup SubtypeCountersOf(twin)
           IN  \A a \in TypeArrays \cup SubtypeArrays : \A s \in Slots :
                   Delta(a, s) = IF a \in counted /\ s \in CountedSlots
                                 THEN 1 ELSE 0

\* The datagram sketch has handled a beacon with protocol version 1: the
\* anomaly is printed, the Management and the Beacon counter went up.
C16_Witness ==
    /\ InvocationDone /\ sketch = "Datagram"
    /\ frame = [len |-> 128, fc |-> 129]
    /\ "BAD PROTOCOL VALUE" \in cbOut
    /\ Delta("gDatagramTypeMgmtCount", 0) = 1
    /\ Delta("gDatagramBeaconCount", entry.ch) = 1

\* C17: when the decoding sketch has handled a 128-byte Management/Beacon
\* buffer whose first information element has a nonzero id, it has printed
\* the bad-element-id message, has extracted and printed no SSID, and has
\* added exactly one to the Management type counter and to the Beacon
\* subtype counter, in slot 0 and in the channel slot.
C17_BadElementIdStillCounted ==
    (InvocationDone /\ sketch = "ScanDecode" /\ frame.len = 128
        /\ TypeCounterOf(frame.fc) = "gDatagramTypeMgmtCount"
        /\ SubtypeCountersOf(frame.fc) = {"gDatagramBeaconCount"}
        /\ ie.id # 0) =>
        /\ "BAD ELEMENT ID" \in cbOut
        /\ "SSID" \notin cbOut /\ ssid = << >>
        /\ CountedOnce("gDatagramTypeMgmtCount")
        /\ CountedOnce("gDatagramBeaconCount")

\* C18: from all-zero counters on channel 3, one 60-byte buffer holding a
\* Management/Beacon frame leaves the 60 bucket, the Management type counter
\* and the Beacon subtype counter at 1 in slot 3 and in slot 0, and every
\* other type and subtype counter at 0, in both sketches that decode.
C18_BeaconOnChannelThree ==
    (/\ InvocationDone /\ sketch \in {"ScanDecode", "Datagram"}
     /\ entry.ch = 3
     /\ \A a \in Arrays : \A s \in Slots : entry.cnt[a][s] = 0
     /\ frame.len = 60
     /\ TypeCounterOf(frame.fc) = "gDatagramTypeMgmtCount"
     /\ SubtypeCountersOf(frame.fc) = {"gDatagramBeaconCount"}) =>
        /\ \A a \in {"gDatagramCount_060", "gDatagramTypeMgmtCount",
                     "gDatagramBeaconCount"} :
               cnt[a][3] = 1 /\ cnt[a][0] = 1
        /\ \A a \in (TypeArrays \cup SubtypeArrays)
                        \ {"gDatagramTypeMgmtCount", "gDatagramBeaconCount"} :
               \A s \in Slots : cnt[a][s] = 0

\* C19: no step of the callback or of the main loop decreases or resets a
\* counter: across every transition every counter of every slot is, as an
\* unsigned 32-bit value, at least what it was, also once the counter has
\* used up its 32 bits.
C19_CountersNeverDecrease ==
    [][\A a \in Arrays : \A s \in Slots : ULongLeq(cnt[a][s], cnt'[a][s])]_vars

\* A step of a callback invocation: it starts, goes on or returns.
CallbackStep == cbpc # "idle" \/ cbpc' # "idle"

\* A step of the channel scanning logic at the top of loop().
SchedulerStep ==
    /\ ~CallbackStep
    /\ pc \in {"start", "inc", "wrap", "setch"} /\ pc' # pc

\* C20: the scan state is written by the scheduler step of the main loop
\* only and the counters by the callback only: no step of a callback
\* invocation changes the current channel or the dwell-start time, no other
\* step (scheduler, LED blink, serial input, report trigger, printing, the
\* clock, the operator) changes any counter, and a step that changes the
\* channel or the dwell-start time is a scheduler step.
C20_ScanStateAndCountersOwned ==
    /\ [][CallbackStep => /\ gCurrentChannel' = gCurrentChannel
                          /\ prevSwitchTime' = prevSwitchTime]_vars
    /\ [][~CallbackStep => cnt' = cnt]_vars
    /\ [][(gCurrentChannel' # gCurrentChannel
             \/ prevSwitchTime' # prevSwitchTime) => SchedulerStep]_vars

\* The callback has counted one buffer on channel 1 and, after the scheduler
\* moved on at the end of the dwell, another on channel 2.
C20_Witness ==
    /\ InvocationDone
    /\ gCurrentChannel = 2 /\ entry.ch = 2
    /\ prevSwitchTime = kScanTimeMillis
    /\ cnt["gCallbackCount"][1] = 1
    /\ cnt["gCallbackCount"][2] = 1

Incremented == { p \in Arrays \X Slots : Delta(p[1], p[2]) # 0 }

\* The counters an invocation of sketch s on buffer f with current channel
\* ch adds to: a function of the sketch, the buffer and the channel alone.
Classification(s, f, ch) ==
    CountedArrays(s, f) \X (IF HasScan(s) THEN {0, ch} ELSE {0})

\* C22: the classification is deterministic: the counters an invocation
\* increments are fixed by the buffer (length and frame-control byte) and
\* the channel it reads, whatever the counters held and whichever frames
\* came before; so two invocations on the same buffer and channel increment
\* the same counters, each by one.  (Channel: a value 1..14 of
\* gCurrentChannel.)
C22_ClassificationDeterministic ==
    (InvocationDone /\ entry.ch \in Channels) =>
        /\ Incremented = Classification(sketch, frame, entry.ch)
        /\ \A p \in Incremented : Delta(p[1], p[2]) = 1

\* A second Probe request of length 60 has been counted on channel 2, after
\* a first one on the same channel: the counters differ, the increments do
\* not.
C22_Witness ==
    /\ cbpc = "ret" /\ sketch = "Datagram" /\ entry.ch = 2
    /\ frame = [len |-> 60, fc |-> 64]
    /\ entry.cnt["gDatagramProbeCount"][2] = 1
    /\ entry.cnt["gDatagramCount_060"][2] = 1
    /\ Incremented = { << a, s >> : a \in {"gCallbackCount", "gDatagramCount_060",
                                          "gDatagramTypeMgmtCount",
                                          "gDatagramProbeCount"},
                                   s \in {0, 2} }

\* Datagrams counted since the blink baseline was last set.
SinceLastBlink == ULongSub(Total, prevBlinkCallbackCount)

\* C23: the LED blinks only when at least 5 datagrams have been captured
\* since the previous blink, so 5 times the number of blinks never exceeds
\* the number of datagrams captured; a blink is of the LED blink test alone,
\* one per loop() iteration; 5 or more accumulated datagrams stay
\* accumulated until loop() reaches the test, and the test then blinks.
C23_BlinkPerFiveDatagrams ==
    /\ [](5 * blinks <= framesSeen)
    /\ [](out.blink <= 1)
    /\ [][ /\ blinks' # blinks => (pc = "blink" /\ SinceLastBlink >= kBlinkThreshold)
           /\ (pc = "blink" /\ pc' # pc /\ SinceLastBlink >= kBlinkThreshold)
                  => (blinks' = blinks + 1 /\ out'.blink = 1)
           /\ (SinceLastBlink >= kBlinkThreshold /\ pc # "blinkset")
                  => SinceLastBlink' >= kBlinkThreshold ]_vars

\* 001 has blinked twice: once on the five datagrams that took its signed
\* count past LONG_MAX, once on six that came later, one of them while the
\* LED was on.
C23_Witness ==
    /\ sketch = "Blink" /\ pc = "end" /\ out.blink = 1
    /\ blinks = 2 /\ framesSeen = 11
    /\ Total < 0 /\ prevBlinkCallbackCount = Total

\* The information element 0x00, 0x04, 'T', 'E', 'S', 'T'.
TestElement == [id |-> 0, len |-> 4, bytes |-> << 84, 69, 83, 84 >>]

\* C24: when the decoding sketch has handled a 128-byte buffer holding a
\* Management/Beacon frame whose first information element is 0x00, 0x04,
\* 'T', 'E', 'S', 'T', the SSID it has extracted and printed is the four
\* bytes "TEST": as many as the length byte says, in order, nothing more;
\* and it has read the buffer no further than the element's last byte.
C24_TestSsidExtracted ==
    (InvocationDone /\ ExtractsSsid(sketch, frame) /\ ie = TestElement) =>
        /\ ssid = << 84, 69, 83, 84 >>
        /\ "SSID" \in cbOut
        /\ "BAD ELEMENT ID" \notin cbOut
        /\ readEnd = SsidOffset + 2 + 4

\* The string has been copied out of a beacon with the TEST element and is
\* about to be freed.
C24_Witness ==
    /\ cbpc = "ssid_free" /\ sketch = "ScanDecode"
    /\ frame = [len |-> 128, fc |-> 128] /\ ie = TestElement
    /\ Len(ssid) = 4 /\ heap = 1

\* C25: a frame is credited to the channel the radio was tuned to when it
\* was delivered: while an invocation of the callback is in progress in a
\* scanning sketch, gCurrentChannel, which it indexes the counters with, is
\* the channel last passed to wifi_set_channel.  It fails for a frame
\* delivered between gCurrentChannel++ and wifi_set_channel.
C25_CreditedToRadioChannel ==
    (HasScan(sketch) /\ ~Quiescent) => gCurrentChannel = radioChannel

\* C26: no captured frame is lost from the count: whenever no invocation of
\* the callback is in progress or preempted, gCallbackCount[0] is the number
\* of invocations so far.  It fails when a second invocation runs between
\* the read and the write of the first one's gCallbackCount[0]++.
C26_NoFrameLost ==
    (Quiescent /\ ~loaded.on) => Total = framesSeen

RECURSIVE SumSeq(_)
\* The sum of the numbers of a sequence.
SumSeq(q) == IF q = << >> THEN 0 ELSE Head(q) + SumSeq(Tail(q))

\* C27: a summary report is a consistent snapshot: once print_report of a
\* scanning sketch has printed its TOTAL line, the value on it is the sum of
\* the values on the 14 channel lines of the same report.  It fails when a
\* frame is counted after the line of its channel was printed and before the
\* TOTAL line is.
C27_ReportIsSnapshot ==
    (HasScan(sketch) /\ reportTotal # -1) => reportTotal = SumSeq(reportLines)

\* The slots a sketch keeps: 0..14 in the scanning sketches, the scalar
\* counters (slot 0) in "Simple".
KeptSlots(s) == IF HasScan(s) THEN Slots ELSE {0}

\* The four length buckets of slot c, together.
BucketSum(c) ==
    cnt["gDatagramCount_012"][c] + cnt["gDatagramCount_060"][c]
        + cnt["gDatagramCount_128"][c] + cnt["gDatagramCount_Other"][c]

\* C28: every invocation counts its buffer in exactly one length bucket, so
\* whenever no invocation is in progress, in every slot the callback count
\* is the sum of the four length buckets of that slot.
C28_CountIsSumOfBuckets ==
    (sketch \in Sketches /\ Quiescent) =>
        \A c \in KeptSlots(sketch) : cnt["gCallbackCount"][c] = BucketSum(c)

\* The four frame-type counters of slot c, together.
TypeSum(c) ==
    cnt["gDatagramTypeMgmtCount"][c] + cnt["gDatagramTypeCntlCount"][c]
        + cnt["gDatagramTypeDataCount"][c] + cnt["gDatagramTypeRsrvCount"][c]

\* C29: the decoding scan sketch decodes every buffer of length 60 or 128
\* and counts it under exactly one frame type, and decodes no other buffer,
\* so whenever no invocation is in progress, in every slot the four type
\* counters add up to the 60 bucket plus the 128 bucket.
C29_TypesAreDecodedLengths ==
    (sketch = "ScanDecode" /\ Quiescent) =>
        \A c \in Slots :
            TypeSum(c) = cnt["gDatagramCount_060"][c] + cnt["gDatagramCount_128"][c]

\* The four management-subtype counters of slot c, together.
SubtypeSum(c) ==
    cnt["gDatagramAssocCount"][c] + cnt["gDatagramProbeCount"][c]
        + cnt["gDatagramBeaconCount"][c] + cnt["gDatagramDisassocCount"][c]

\* C30: in the datagram sketch a Management frame is counted under at most
\* one subtype and no other frame under any, so whenever no invocation is in
\* progress, in every slot the four subtype counters add up to no more than
\* the Management counter, and that is no more than the callback count.
C30_SubtypesWithinManagement ==
    (sketch = "Datagram" /\ Quiescent) =>
        \A c \in Slots :
            /\ SubtypeSum(c) <= cnt["gDatagramTypeMgmtCount"][c]
            /\ cnt["gDatagramTypeMgmtCount"][c] <= cnt["gCallbackCount"][c]

FoundSeveralDwells == ULongLeq(2 * kScanTimeMillis, timeDelta)

\* C32: a scheduler step that finds several dwell periods elapsed moves to
\* the channel that follows the one it started on, and to no other, calls
\* wifi_set_channel once, and restarts the dwell from the time it read; the
\* scheduler step of the iteration after it, entered at once, finds no dwell
\* elapsed and leaves the channel alone.
C32_LateStepAdvancesByOne ==
    /\ [] ((AfterSchedulerStep /\ FoundSeveralDwells) =>
              /\ gCurrentChannel = IF iter.ch = kChannelMax THEN 1 ELSE iter.ch + 1
              /\ radioChannel = gCurrentChannel
              /\ radioCalls = iter.calls + 1
              /\ out.setch = 1
              /\ prevSwitchTime = currentTime
              /\ ULongSub(currentTime, iter.prev) = timeDelta)
    /\ [][ (pc = "start" /\ pc' # pc /\ staticInit /\ now = prevSwitchTime)
              => pc' = "blink" ]_vars

\* The step that left channel 14 found four dwell periods elapsed: the
\* channel is 1, not 4, and the dwell restarts now.
C32_Witness ==
    /\ sketch = "Datagram" /\ pc = "blink"
    /\ timeDelta = 4 * kScanTimeMillis /\ iter.ch = 14
    /\ gCurrentChannel = 1 /\ radioChannel = 1
    /\ prevSwitchTime = now

\* The dwell that the scheduler step of this iteration tested began before
\* the clock wrapped, and the step read the clock after it had.
DwellSpansWrap == iter.prev < 0 /\ currentTime >= 0

\* C33: the dwell check is right across the wrap of the 32-bit clock: the
\* timeDelta a scheduler step computes is the time that elapsed between the
\* two readings, also when the clock wrapped between them, and the step
\* switches if and only if that time is at least 60000 ms.
C33_DwellCheckAcrossWrap ==
    AfterSchedulerStep =>
        /\ timeDelta = currentTime - iter.prev
        /\ (currentTime - iter.prev >= kScanTimeMillis) =>
              /\ gCurrentChannel = IF iter.ch = kChannelMax THEN 1 ELSE iter.ch + 1
              /\ prevSwitchTime = currentTime
              /\ out.setch = 1
        /\ (currentTime - iter.prev < kScanTimeMillis) =>
              /\ gCurrentChannel = iter.ch
              /\ prevSwitchTime = iter.prev
              /\ out.setch = 0

\* A dwell that began 30 s before the wrap has ended at the step that read
\* the clock 30 s after it, exactly 60000 ms later.
C33_Witness ==
    /\ pc = "blink" /\ DwellSpansWrap
    /\ iter.prev = 0 - 30000 /\ currentTime = 30000
    /\ timeDelta = kScanTimeMillis
    /\ gCurrentChannel = iter.ch + 1 /\ prevSwitchTime = currentTime

\* A step 59 s into a dwell that began 30 s before the wrap has read the
\* clock after the wrap and has not switched.
C33_WitnessEarly ==
    /\ pc = "blink" /\ DwellSpansWrap
    /\ iter.prev = 0 - 30000 /\ currentTime = 29000
    /\ gCurrentChannel = iter.ch /\ out.setch = 0

\* C34: once loop() has set the report baseline after a summary report, the
\* baseline is the value that report printed on its TOTAL line, so a frame
\* is either in the printed total or counts toward the next report.  It
\* fails when a frame is counted after the TOTAL line was printed and before
\* prevPrintCallbackCount is assigned.
C34_BaselineIsPrintedTotal ==
    (reportTotal # -1 /\ pc # "setprint") => prevPrintCallbackCount = reportTotal

====
